---------------------------- MODULE Spec2Model ----------------------------
(***************************************************************************)
(* A model of awpy's DemoParser round cleaning                             *)
(* (src/awpy/parser/demoparser.py): the parsed game record, the cleaning   *)
(* stages, the roster normaliser and clean_rounds.                         *)
(*                                                                         *)
(* Python values are modelled as follows.  A list is a sequence (order is  *)
(* kept: appends go to the end, list.remove drops the first equal          *)
(* element).  A JSON null list is a sequence with a separate ...None flag. *)
(* Object identity of a round is the field uid, of a frame the field tick. *)
(* The records a parser loads follow the data model of the decoder: steam  *)
(* ids are unique within a frame side pair and within the roster pair,     *)
(* side labels are "T" or "CT", and a player's label, list, roster and     *)
(* event labels agree in the loaded record.                                *)
(***************************************************************************)
EXTENDS Integers, Sequences, FiniteSets, TLC

VARIABLES
    hasJson,       \* self._json is not None
    json,          \* self._json (EmptyGame while none is loaded)
    parse_frames,  \* self.parser_args["parse_frames"]
    outFile,       \* the file at self.output_file: [exists, game]
    last,          \* the last call: [op, result, all_flags]
    pc,            \* position inside a clean_rounds followed step by step (0 outside)
    flags,         \* the enable flags of the running clean_rounds
    calls,         \* the stages the running clean_rounds has invoked
    nCalls,        \* the number of cleaning calls made on the loaded record
    loaded,        \* history: the record as read_json loaded it
    given,         \* history: the tunables passed to the constructor
    args,          \* self.parser_args: [trade_time, parse_rate, buy_style]
    parse_error    \* self.parse_error

vars == <<hasJson, json, parse_frames, outFile, last, pc, flags, calls, nCalls, loaded,
          given, args, parse_error>>

-----------------------------------------------------------------------------
(* Bounds of the model *)

MaxRounds == 4      \* rounds of a loaded score-progression record
MaxDefectRounds == 2 \* rounds of a loaded record with filterable rounds
MaxExtras == 2      \* players added to the T side beyond the base roster
MaxOff == 1         \* stages a clean_rounds call disables, or
MaxOn == 1          \* stages a clean_rounds call enables
MaxCalls == 2       \* cleaning calls made on one loaded record
MaxStepRounds == 1  \* rounds of a record whose clean_rounds is followed step by step
MaxScore == 20      \* end score of a side in the records of the score checker
MaxElimExtras == 3  \* players added to the T side of a record of the elimination loops
MaxDead == 11       \* not-alive players of the oversized side of such a record

(* Program constants *)

max_players == 5
min_players == 3
max_loops == 10
n_total_players == 10
tie_score == 15
ot_tie_score == 3

-----------------------------------------------------------------------------
(* Sequence helpers *)

Range(s) == {s[i] : i \in DOMAIN s}

RECURSIVE Flatten(_)
Flatten(ss) == IF ss = <<>> THEN <<>> ELSE Head(ss) \o Flatten(Tail(ss))

\* All sequences over S of length 0..n
SeqsUpTo(S, n) == UNION {[1..k -> S] : k \in 0..n}

\* A sequence given as a function, as the tuple of its values
Eager(s) == s \o <<>>

\* The first index from i on of an element of s equal to e, 0 if none
RECURSIVE FirstEqual(_, _, _)
FirstEqual(s, i, e) ==
    IF i > Len(s) THEN 0 ELSE IF s[i] = e THEN i ELSE FirstEqual(s, i + 1, e)

\* The first index from i on of a player of s with the steam id, 0 if none
RECURSIVE FirstWithId(_, _, _)
FirstWithId(s, i, id) ==
    IF i > Len(s) THEN 0 ELSE IF s[i].steamID = id THEN i ELSE FirstWithId(s, i + 1, id)

\* s without its element at index i (s itself for i = 0)
RemoveAt(s, i) ==
    IF i = 0 THEN s ELSE SubSeq(s, 1, i-1) \o SubSeq(s, i+1, Len(s))

\* Python list.remove(e): drop the first element equal to e
ListRemove(s, e) == RemoveAt(s, FirstEqual(s, 1, e))

\* s is a subsequence of t (order kept)
RECURSIVE IsSubseq(_, _)
IsSubseq(s, t) ==
    IF s = <<>> THEN TRUE
    ELSE IF t = <<>> THEN FALSE
    ELSE IF Head(s) = Head(t) THEN IsSubseq(Tail(s), Tail(t))
    ELSE IsSubseq(s, Tail(t))

Flip(side) == IF side = "CT" THEN "T" ELSE "CT"

-----------------------------------------------------------------------------
(* The record model: what json.load gives for the decoder's output *)

EmptyGame ==
    [mapName |-> "", warmupChanged |-> FALSE, roundsNone |-> TRUE, gameRounds |-> <<>>]

\* len(x or []) and iteration over (x or []) for a list that may be null
OrEmpty(isNone, s) == IF isNone THEN <<>> ELSE s

\* self.json["gameRounds"] or []
RoundsOrEmpty(g) == OrEmpty(g.roundsNone, g.gameRounds)

WithRounds(g, rounds) == [g EXCEPT !.roundsNone = FALSE, !.gameRounds = rounds]

\* The elements of s at the indices in I, in order (a list comprehension)
RECURSIVE SelectAt(_, _, _)
SelectAt(s, keep, k) ==
    IF k = 0 THEN <<>>
    ELSE IF keep[k] THEN Append(SelectAt(s, keep, k - 1), s[k])
    ELSE SelectAt(s, keep, k - 1)

-----------------------------------------------------------------------------
(* Score consistency checker *)

TotalScore(r) == r.tScore + r.endTScore + r.ctScore + r.endCTScore

\* Variant: the overtime win without the margin of two
HasWinnerAndNotWinnerNoMargin(r) ==
    \/ (r.endTScore = tie_score + 1) /\ (r.endCTScore < tie_score)
    \/ (r.endCTScore = tie_score + 1) /\ (r.endTScore < tie_score)
    \/ (r.endCTScore - tie_score - 1) % ot_tie_score = 0 /\ r.endCTScore > tie_score
    \/ (r.endTScore - tie_score - 1) % ot_tie_score = 0 /\ r.endTScore > tie_score

HasWinnerAndNotWinner(r) ==
    LET regular_valid_t_win ==
            (r.endTScore = tie_score + 1) /\ (r.endCTScore < tie_score)
        regular_valid_ct_win ==
            (r.endCTScore = tie_score + 1) /\ (r.endTScore < tie_score)
        ot_valid_ct_win ==
            /\ (r.endCTScore - tie_score - 1) % ot_tie_score = 0
            /\ r.endTScore < r.endCTScore - 1
            /\ r.endCTScore > tie_score
        ot_valid_t_win ==
            /\ (r.endTScore - tie_score - 1) % ot_tie_score = 0
            /\ r.endCTScore < r.endTScore - 1
            /\ r.endTScore > tie_score
    IN  regular_valid_ct_win \/ regular_valid_t_win \/ ot_valid_ct_win \/ ot_valid_t_win

\* Variant: in front of the first round there is a round with every score 0
LookbackZero(rounds, i) ==
    IF i = 1
    THEN [rounds[1] EXCEPT !.tScore = 0, !.endTScore = 0, !.ctScore = 0, !.endCTScore = 0]
    ELSE rounds[i-1]

\* Python's rounds[i - 1] for 1-based i: index 0 wraps to the last element
Lookback(rounds, i) == IF i = 1 THEN rounds[Len(rounds)] ELSE rounds[i-1]

\* Variant: a successor with an equal summed score is enough
BadScoringKeepsEqual(rounds, i) ==
    IF i < Len(rounds)
    THEN \/ TotalScore(rounds[i+1]) >= TotalScore(rounds[i])
         \/ HasWinnerAndNotWinner(rounds[i])
    ELSE TotalScore(rounds[i]) > TotalScore(Lookback(rounds, i))

\* Variant: the terminal-win test is applied to the last round too
BadScoringKeepsLastWinner(rounds, i) ==
    IF i < Len(rounds)
    THEN \/ TotalScore(rounds[i+1]) > TotalScore(rounds[i])
         \/ HasWinnerAndNotWinner(rounds[i])
    ELSE \/ TotalScore(rounds[i]) > TotalScore(Lookback(rounds, i))
         \/ HasWinnerAndNotWinner(rounds[i])

BadScoringKeeps(rounds, i) ==
    IF i < Len(rounds)
    THEN \/ TotalScore(rounds[i+1]) > TotalScore(rounds[i])
         \/ HasWinnerAndNotWinner(rounds[i])
    ELSE TotalScore(rounds[i]) > TotalScore(Lookback(rounds, i))

\* Variant: the round ahead is appended in place of the current round
RemoveBadScoringLookahead(g) ==
    IF g.roundsNone THEN g
    ELSE WithRounds(g, SelectAt(
            Eager([i \in DOMAIN g.gameRounds |->
                      g.gameRounds[IF i < Len(g.gameRounds) THEN i + 1 ELSE i]]),
            Eager([i \in DOMAIN g.gameRounds |-> BadScoringKeeps(g.gameRounds, i)]),
            Len(g.gameRounds)))

RemoveBadScoring(g) ==
    IF g.roundsNone THEN g
    ELSE WithRounds(g, SelectAt(g.gameRounds,
                      Eager([i \in DOMAIN g.gameRounds |-> BadScoringKeeps(g.gameRounds, i)]),
                      Len(g.gameRounds)))

-----------------------------------------------------------------------------
(* Scalar filters *)

\* Variant: the filter runs whatever parse_frames is
RemoveRoundsWithNoFramesAlways(g, pf) ==
    LET rounds == RoundsOrEmpty(g)
    IN  WithRounds(g, SelectSeq(rounds,
            LAMBDA r : Len(OrEmpty(r.framesNone, r.frames)) > 0))

RemoveRoundsWithNoFrames(g, pf) ==
    IF ~pf THEN g
    ELSE LET rounds == RoundsOrEmpty(g)
         IN  WithRounds(g, SelectSeq(rounds,
                 LAMBDA r : Len(OrEmpty(r.framesNone, r.frames)) > 0))

RemoveWarmups(g) ==
    IF g.warmupChanged
    THEN WithRounds(g, SelectSeq(RoundsOrEmpty(g), LAMBDA r : ~r.isWarmup))
    ELSE WithRounds(g, <<>>)

KnifeKeeps(r) ==
    IF r.isWarmup THEN FALSE
    ELSE IF r.killsNone THEN FALSE
    ELSE LET total_kills == Len(r.kills)
             total_knife_kills ==
                 Cardinality({i \in DOMAIN r.kills : r.kills[i].weapon = "Knife"})
         IN  (total_knife_kills # total_kills) \/ (total_knife_kills = 0)

RemoveKnifeRounds(g) ==
    IF g.roundsNone THEN g
    ELSE WithRounds(g, SelectSeq(g.gameRounds, KnifeKeeps))

RemoveExcessKillRounds(g) ==
    WithRounds(g, SelectSeq(RoundsOrEmpty(g),
        LAMBDA r : ~r.isWarmup /\ Len(OrEmpty(r.killsNone, r.kills)) <= n_total_players))

RemoveTimeRounds(g) ==
    WithRounds(g, SelectSeq(RoundsOrEmpty(g),
        LAMBDA r : /\ r.startTick <= r.endTick
                   /\ r.startTick <= r.endOfficialTick
                   /\ r.startTick <= r.freezeTimeEndTick))

DefaultBadEndings == {"Draw", "Unknown", ""}

\* Variant: the list of the caller is added to the default list
RemoveEndRoundAdded(g, bad_endings) ==
    LET bad == DefaultBadEndings \cup bad_endings.list
    IN  IF g.roundsNone THEN g
        ELSE WithRounds(g, SelectSeq(g.gameRounds, LAMBDA r : r.roundEndReason \notin bad))

\* bad_endings is [isNone, list]: None selects the default list
RemoveEndRound(g, bad_endings) ==
    LET bad == IF bad_endings.isNone THEN DefaultBadEndings ELSE bad_endings.list
    IN  IF g.roundsNone THEN g
        ELSE WithRounds(g, SelectSeq(g.gameRounds, LAMBDA r : r.roundEndReason \notin bad))

-----------------------------------------------------------------------------
(* Renumberer *)

\* Variant: the rounds keep the numbers they were loaded with
RenumberRoundsSkipped(g) == g

RenumberRounds(g) ==
    IF g.roundsNone THEN g
    ELSE [g EXCEPT !.gameRounds =
            Eager([i \in DOMAIN g.gameRounds |-> [g.gameRounds[i] EXCEPT !.roundNum = i]])]

\* The number of frames in the first n rounds
RECURSIVE FramesIn(_, _)
FramesIn(rounds, n) ==
    IF n = 0 THEN 0
    ELSE FramesIn(rounds, n - 1) + Len(OrEmpty(rounds[n].framesNone, rounds[n].frames))

\* The frames of one round numbered first, first + 1, ...
NumberFrames(frames, first) ==
    Eager([k \in DOMAIN frames |-> [frames[k] EXCEPT !.globalFrameID = first + k - 1]])

\* Variant: the index restarts at 0 in every round
RenumberFramesPerRound(g) ==
    IF g.roundsNone THEN g
    ELSE [g EXCEPT !.gameRounds =
            Eager([i \in DOMAIN g.gameRounds |->
                [g.gameRounds[i] EXCEPT !.frames = NumberFrames(g.gameRounds[i].frames, 0)]])]

\* for index, frame in enumerate(all frames, round by round): globalFrameID = index
RenumberFrames(g) ==
    IF g.roundsNone THEN g
    ELSE [g EXCEPT !.gameRounds =
            Eager([i \in DOMAIN g.gameRounds |->
                [g.gameRounds[i] EXCEPT !.frames =
                    NumberFrames(g.gameRounds[i].frames, FramesIn(g.gameRounds, i - 1))]])]

-----------------------------------------------------------------------------
(* Roster normaliser: operations on one round *)

\* for player in lst: if player["steamID"] == id: lst.remove(player)
\* (the list is mutated while it is iterated: the index moves on after a removal)
RECURSIVE RemoveWhileIterating(_, _, _)
RemoveWhileIterating(lst, i, id) ==
    IF i > Len(lst) THEN lst
    ELSE IF lst[i].steamID = id
         THEN RemoveWhileIterating(ListRemove(lst, lst[i]), i + 1, id)
         ELSE RemoveWhileIterating(lst, i + 1, id)

RemovePlayerFromRound(r, removed_steamID) ==
    [r EXCEPT
        !.tSide = RemoveWhileIterating(r.tSide, 1, removed_steamID),
        !.ctSide = RemoveWhileIterating(r.ctSide, 1, removed_steamID),
        !.frames = Eager([k \in DOMAIN r.frames |->
            [r.frames[k] EXCEPT
                !.t = RemoveWhileIterating(r.frames[k].t, 1, removed_steamID),
                !.ct = RemoveWhileIterating(r.frames[k].ct, 1, removed_steamID)]])]

RECURSIVE RemovePlayers(_, _)
RemovePlayers(r, ids) ==
    IF ids = <<>> THEN r
    ELSE RemovePlayers(RemovePlayerFromRound(r, Head(ids)), Tail(ids))

\* The first not-alive player of the side, frames in order, list order inside a
\* frame: [isNone, steamID].  The code returns at the first one it meets.
RECURSIVE FirstDeadFrom(_, _)
FirstDeadFrom(players, i) ==
    IF i > Len(players) THEN [isNone |-> TRUE, steamID |-> 0]
    ELSE IF ~players[i].isAlive THEN [isNone |-> FALSE, steamID |-> players[i].steamID]
    ELSE FirstDeadFrom(players, i + 1)

FindFirstDeadPlayer(r, side) ==
    FirstDeadFrom(Flatten(Eager([k \in DOMAIN r.frames |-> r.frames[k][side]])), 1)

AtOrigin(p) == p.x = 0 /\ p.y = 0 /\ p.z = 0

SteamIds(players) == Eager([i \in DOMAIN players |-> players[i].steamID])

RemoveCoachesInOrigin(r) ==
    RemovePlayers(r, SteamIds(SelectSeq(r.frames[1].t, AtOrigin)
                              \o SelectSeq(r.frames[1].ct, AtOrigin)))

\* Some later frame holds the player in the same side list at another position
Moved(r, side, player) ==
    \E k \in 2..Len(r.frames) : \E i \in DOMAIN r.frames[k][side] :
        LET p == r.frames[k][side][i]
        IN  p.steamID = player.steamID
            /\ <<p.x, p.y, p.z>> # <<player.x, player.y, player.z>>

RemoveCoachesNotMoving(r) ==
    IF r.frames = <<>> THEN r
    ELSE RemovePlayers(r, SteamIds(SelectSeq(r.frames[1].t, LAMBDA p : ~Moved(r, "t", p))
                                   \o SelectSeq(r.frames[1].ct, LAMBDA p : ~Moved(r, "ct", p))))

\* The roster loop of switch_player_side: tSide first, then ctSide unless switched
MoveRoster(r, it, ic) ==
    IF it # 0
    THEN [r EXCEPT !.ctSide = Append(r.ctSide, r.tSide[it]),
                   !.tSide = ListRemove(r.tSide, r.tSide[it])]
    ELSE IF ic # 0
    THEN [r EXCEPT !.tSide = Append(r.tSide, r.ctSide[ic]),
                   !.ctSide = ListRemove(r.ctSide, r.ctSide[ic])]
    ELSE r

SwitchRoster(r, id) == MoveRoster(r, FirstWithId(r.tSide, 1, id), FirstWithId(r.ctSide, 1, id))

\* The frame loop of switch_player_side for one frame; the label is set from the
\* list the player is found in
\* player["side"] = ...; other list .append(player); this list .remove(player)
MovePlayer(frame, from, to, i, player) ==
    [frame EXCEPT ![to] = Append(frame[to], player),
                  ![from] = ListRemove([frame[from] EXCEPT ![i] = player], player)]

\* Variant: the label is set from the list the player leaves
MoveInFrameSourceLabel(frame, it, ic) ==
    IF it # 0 THEN MovePlayer(frame, "t", "ct", it, [frame.t[it] EXCEPT !.side = "T"])
    ELSE IF ic # 0 THEN MovePlayer(frame, "ct", "t", ic, [frame.ct[ic] EXCEPT !.side = "CT"])
    ELSE frame

MoveInFrame(frame, it, ic) ==
    IF it # 0 THEN MovePlayer(frame, "t", "ct", it, [frame.t[it] EXCEPT !.side = "CT"])
    ELSE IF ic # 0 THEN MovePlayer(frame, "ct", "t", ic, [frame.ct[ic] EXCEPT !.side = "T"])
    ELSE frame

SwitchFrame(frame, id) ==
    MoveInFrame(frame, FirstWithId(frame.t, 1, id), FirstWithId(frame.ct, 1, id))

SwitchKills(kills, id) ==
    Eager([i \in DOMAIN kills |->
        [kills[i] EXCEPT
            !.attackerSide = IF kills[i].attackerSteamID = id THEN Flip(@) ELSE @,
            !.victimSide = IF kills[i].victimSteamID = id THEN Flip(@) ELSE @]])

SwitchDamages(damages, id) ==
    Eager([i \in DOMAIN damages |->
        [damages[i] EXCEPT
            !.attackerSide = IF damages[i].attackerSteamID = id THEN Flip(@) ELSE @,
            !.victimSide = IF damages[i].victimSteamID = id THEN Flip(@) ELSE @]])

SwitchGrenades(grenades, id) ==
    Eager([i \in DOMAIN grenades |->
        [grenades[i] EXCEPT
            !.throwerSide = IF grenades[i].throwerSteamID = id THEN Flip(@) ELSE @]])

\* Variant: the weaponFires loop is left out
SwitchWeaponFiresSkipped(weaponFires, id) == weaponFires

SwitchWeaponFires(weaponFires, id) ==
    Eager([i \in DOMAIN weaponFires |->
        [weaponFires[i] EXCEPT
            !.playerSide = IF weaponFires[i].playerSteamID = id THEN Flip(@) ELSE @]])

SwitchFlashes(flashes, id) ==
    Eager([i \in DOMAIN flashes |->
        [flashes[i] EXCEPT
            !.attackerSide = IF flashes[i].attackerSteamID = id THEN Flip(@) ELSE @,
            !.playerSide = IF flashes[i].playerSteamID = id THEN Flip(@) ELSE @]])

SwitchPlayerSide(r, switched_steamID) ==
    [SwitchRoster(r, switched_steamID) EXCEPT
        !.kills = SwitchKills(@, switched_steamID),
        !.damages = SwitchDamages(@, switched_steamID),
        !.grenades = SwitchGrenades(@, switched_steamID),
        !.weaponFires = SwitchWeaponFires(@, switched_steamID),
        !.flashes = SwitchFlashes(@, switched_steamID),
        !.frames = Eager([k \in DOMAIN r.frames |->
                             SwitchFrame(r.frames[k], switched_steamID)])]

RECURSIVE SwitchPlayers(_, _)
SwitchPlayers(r, ids) ==
    IF ids = <<>> THEN r
    ELSE SwitchPlayers(SwitchPlayerSide(r, Head(ids)), Tail(ids))

YMaps == {"de_ancient", "de_anubis", "de_overpass", "de_vertigo"}
XNegMaps == {"de_inferno", "de_nuke"}

\* Variant: de_mirage tested like de_inferno
GetPlayerSideMirageNeg(player, mapName) ==
    IF mapName \in YMaps THEN (IF player.y < 0 THEN "T" ELSE "CT")
    ELSE IF mapName \in XNegMaps \cup {"de_mirage"} THEN (IF player.x < 0 THEN "T" ELSE "CT")
    ELSE player.side

GetPlayerSide(player, mapName) ==
    IF mapName \in YMaps THEN (IF player.y < 0 THEN "T" ELSE "CT")
    ELSE IF mapName \in XNegMaps THEN (IF player.x < 0 THEN "T" ELSE "CT")
    ELSE IF mapName = "de_mirage" THEN (IF player.x > 0 THEN "T" ELSE "CT")
    ELSE player.side

-----------------------------------------------------------------------------
(* Roster normaliser: remove_excess_players *)

\* len(player_lists[0]) > 5 or len(player_lists[1]) > 5
OverLimit(r) == Len(r.frames[1].t) > 5 \/ Len(r.frames[1].ct) > 5

\* switchedPlayers: the first-frame players whose inferred side is not their label
SwitchedPlayers(r, mapName) ==
    {p.steamID : p \in {q \in Range(r.frames[1].t) \cup Range(r.frames[1].ct) :
                            GetPlayerSide(q, mapName) # q.side}}

\* The iteration order of a Python set is not specified.  The model draws it from
\* ascending and descending steam id (every order of a set of at most two ids).
RECURSIVE Ascending(_)
Ascending(S) ==
    IF S = {} THEN <<>>
    ELSE LET m == CHOOSE x \in S : \A y \in S : x <= y
         IN  <<m>> \o Ascending(S \ {m})

RECURSIVE Descending(_)
Descending(S) ==
    IF S = {} THEN <<>>
    ELSE LET m == CHOOSE x \in S : \A y \in S : x >= y
         IN  <<m>> \o Descending(S \ {m})

SetIteration(S, desc) == IF desc THEN Descending(S) ELSE Ascending(S)

\* while len(player_lists[i]) > 5 and loop < max_loops: ... (loop counts attempts)
RECURSIVE EliminateFirstDead(_, _, _)

\* Variant: only None ends the loop
EliminateOneZeroFound(r, side, loop, firstDied) ==
    IF ~firstDied.isNone
    THEN EliminateFirstDead(RemovePlayerFromRound(r, firstDied.steamID), side, loop + 1)
    ELSE r

\* if firstDied: remove it and go on, else: break (None and 0 are both falsy)
EliminateOne(r, side, loop, firstDied) ==
    IF ~firstDied.isNone /\ firstDied.steamID # 0
    THEN EliminateFirstDead(RemovePlayerFromRound(r, firstDied.steamID), side, loop + 1)
    ELSE r

EliminateFirstDead(r, side, loop) ==
    IF Len(r.frames[1][side]) > 5 /\ loop < max_loops
    THEN EliminateOne(r, side, loop, FindFirstDeadPlayer(r, side))
    ELSE r

\* Variant: the acceptance test without the lower bound
AcceptedPlayerCountsNoMin(r) ==
    \A side \in {"t", "ct"} : Len(r.frames[1][side]) <= max_players

\* The acceptance test on the first frame's two player lists
AcceptedPlayerCounts(r) ==
    \A side \in {"t", "ct"} :
        Len(r.frames[1][side]) <= max_players /\ Len(r.frames[1][side]) >= min_players

\* The body of the loop over rounds, for a round that has frames
CoachesInOriginStep(r) == IF OverLimit(r) THEN RemoveCoachesInOrigin(r) ELSE r

\* Variant: the players that do not move are removed whatever the list lengths
CoachesNotMovingStepAlways(r) == RemoveCoachesNotMoving(r)

CoachesNotMovingStep(r) == IF OverLimit(r) THEN RemoveCoachesNotMoving(r) ELSE r

SwitchStep(r, mapName, desc) ==
    SwitchPlayers(r, SetIteration(SwitchedPlayers(r, mapName), desc))

\* The two T loops and the CT loop
EliminationStep(r) ==
    EliminateFirstDead(EliminateFirstDead(EliminateFirstDead(r, "t", 0), "t", 0), "ct", 0)

NormalizeRound(r, mapName, desc) ==
    EliminationStep(SwitchStep(CoachesNotMovingStep(CoachesInOriginStep(r)), mapName, desc))

HasFrames(r) == ~r.framesNone /\ r.frames # <<>>

NormalizeRounds(rounds, mapName, desc) ==
    Eager([i \in DOMAIN rounds |-> NormalizeRound(rounds[i], mapName, desc)])

RemoveExcessPlayers(g, pf, desc) ==
    IF ~pf THEN g
    ELSE WithRounds(g, SelectSeq(NormalizeRounds(SelectSeq(RoundsOrEmpty(g), HasFrames),
                                                 g.mapName, desc),
                                 AcceptedPlayerCounts))

\* switch_player_side iterates game_round.get("kills", []): a null kill list raises
\* TypeError there.  The cleaning operations are modelled where this does not happen.
SwitchRaises(g, pf) ==
    pf /\ \E i \in DOMAIN RoundsOrEmpty(g) :
            LET r == g.gameRounds[i]
            IN  HasFrames(r) /\ r.killsNone /\ SwitchedPlayers(r, g.mapName) # {}

-----------------------------------------------------------------------------
(* Pipeline orchestrator: clean_rounds *)

Stages == {"remove_no_frames", "remove_warmups", "remove_knifes", "remove_bad_timings",
           "remove_excess_players", "remove_excess_kills", "remove_bad_endings",
           "remove_bad_scoring"}

NoBadEndings == [isNone |-> TRUE, list |-> {}]

\* One stage call of clean_rounds
RunStage(stage, g, pf, desc) ==
    CASE stage = "remove_no_frames"      -> RemoveRoundsWithNoFrames(g, pf)
      [] stage = "remove_warmups"        -> RemoveWarmups(g)
      [] stage = "remove_knifes"         -> RemoveKnifeRounds(g)
      [] stage = "remove_bad_timings"    -> RemoveTimeRounds(g)
      [] stage = "remove_excess_players" -> RemoveExcessPlayers(g, pf, desc)
      [] stage = "remove_excess_kills"   -> RemoveExcessKillRounds(g)
      [] stage = "remove_bad_endings"    -> RemoveEndRound(g, NoBadEndings)
      [] stage = "remove_bad_scoring"    -> RemoveBadScoring(g)
      [] stage = "renumber_rounds"       -> RenumberRounds(g)
      [] stage = "renumber_frames"       -> RenumberFrames(g)

\* Variant: the rounds are renumbered before the score checker runs
PipelineOrderRenumberEarly ==
    <<"remove_no_frames", "remove_warmups", "remove_knifes", "remove_bad_timings",
      "remove_excess_players", "remove_excess_kills", "remove_bad_endings",
      "renumber_rounds", "remove_bad_scoring", "renumber_frames">>

\* The stages of clean_rounds in the order of its if statements, renumbering last
PipelineOrder ==
    <<"remove_no_frames", "remove_warmups", "remove_knifes", "remove_bad_timings",
      "remove_excess_players", "remove_excess_kills", "remove_bad_endings",
      "remove_bad_scoring", "renumber_rounds", "renumber_frames">>

StageEnabled(stage, F) == stage \in F \/ stage \in {"renumber_rounds", "renumber_frames"}

\* The record after the first k steps of clean_rounds called with the flags F
RECURSIVE RunPipeline(_, _, _, _, _)
RunPipeline(g, pf, F, desc, k) ==
    IF k = 0 THEN g
    ELSE IF StageEnabled(PipelineOrder[k], F)
    THEN RunStage(PipelineOrder[k], RunPipeline(g, pf, F, desc, k - 1), pf, desc)
    ELSE RunPipeline(g, pf, F, desc, k - 1)

CleanRounds(g, pf, F, desc) == RunPipeline(g, pf, F, desc, Len(PipelineOrder))

-----------------------------------------------------------------------------
(* The records a parser loads: bounded families of decoder output.            *)
(* A player is given as [id, kind]; the kind fixes position, movement and     *)
(* death over the frames of the round:                                        *)
(*   "ok"        at the spawn of its side, moves, stays alive                 *)
(*   "dead"      as ok, not alive from the second frame on                    *)
(*   "origin"    at (0,0,0) in every frame                                    *)
(*   "still"     at the spawn of its side, never moves                        *)
(*   "wrong"     at the spawn of the other side, moves, stays alive           *)
(*   "wrongdead" as wrong, not alive from the second frame on                 *)
(*   "deadlate"  as ok, not alive from the third frame on                     *)
(*   "at"        at the x and y the description gives, moves, stays alive     *)
(* The T spawn is at x = -1, y = -1 and the CT spawn at x = 1, y = 1.         *)

Label(side) == IF side = "t" THEN "T" ELSE "CT"

OtherSide(side) == IF side = "t" THEN "ct" ELSE "t"

SpawnXY(side) == IF side = "t" THEN -1 ELSE 1

MkPlayer(spec, side, k) ==
    LET at == IF spec.kind \in {"wrong", "wrongdead"} THEN OtherSide(side) ELSE side
        xy == IF spec.kind = "origin" THEN 0 ELSE SpawnXY(at)
        z  == IF spec.kind \in {"origin", "still"} THEN 0 ELSE k - 1
    IN  [steamID |-> spec.id, side |-> Label(side),
         x |-> IF spec.kind = "at" THEN spec.x ELSE xy,
         y |-> IF spec.kind = "at" THEN spec.y ELSE xy,
         z |-> z,
         isAlive |-> ~(\/ spec.kind \in {"dead", "wrongdead"} /\ k > 1
                       \/ spec.kind = "deadlate" /\ k > 2)]

MkFrame(uid, tSpec, ctSpec, k) ==
    [tick |-> 10 * uid + k, globalFrameID |-> 0,
     t  |-> Eager([i \in DOMAIN tSpec |-> MkPlayer(tSpec[i], "t", k)]),
     ct |-> Eager([i \in DOMAIN ctSpec |-> MkPlayer(ctSpec[i], "ct", k)])]

\* The players of a side list that the events of the round refer to
Notable(spec) == SelectSeq(spec, LAMBDA p : p.kind # "ok")

\* One kill per player that dies, by the first player of the other list
DeathKills(spec, side, otherSpec) ==
    LET dying == SelectSeq(spec, LAMBDA p : p.kind \in {"dead", "wrongdead", "deadlate"})
    IN  Eager([i \in DOMAIN dying |->
            [attackerSteamID |-> otherSpec[1].id, attackerSide |-> Label(OtherSide(side)),
             victimSteamID |-> dying[i].id, victimSide |-> Label(side),
             weapon |-> "AK-47"]])

BaseKill(tSpec, ctSpec, weapon) ==
    [attackerSteamID |-> tSpec[1].id, attackerSide |-> "T",
     victimSteamID |-> ctSpec[1].id, victimSide |-> "CT", weapon |-> weapon]

MkKills(tSpec, ctSpec, killMode) ==
    CASE killMode = "knife"  -> Eager([i \in 1..2 |-> BaseKill(tSpec, ctSpec, "Knife")])
      [] killMode = "many"   -> Eager([i \in 1..(n_total_players + 1) |->
                                    BaseKill(tSpec, ctSpec, "AK-47")])
      [] killMode = "null"   -> <<>>
      [] OTHER               -> DeathKills(tSpec, "t", ctSpec) \o DeathKills(ctSpec, "ct", tSpec)

MkDamages(spec, side, otherSpec) ==
    LET n == Notable(spec)
    IN  Eager([i \in DOMAIN n |->
            [attackerSteamID |-> n[i].id, attackerSide |-> Label(side),
             victimSteamID |-> otherSpec[1].id, victimSide |-> Label(OtherSide(side))]])

MkGrenades(spec, side) ==
    LET n == Notable(spec)
    IN  Eager([i \in DOMAIN n |-> [throwerSteamID |-> n[i].id, throwerSide |-> Label(side)]])

MkWeaponFires(spec, side) ==
    LET n == Notable(spec)
    IN  Eager([i \in DOMAIN n |-> [playerSteamID |-> n[i].id, playerSide |-> Label(side)]])

MkFlashes(spec, side, otherSpec) ==
    LET n == Notable(spec)
    IN  Eager([i \in DOMAIN n |->
            [attackerSteamID |-> otherSpec[1].id, attackerSide |-> Label(OtherSide(side)),
             playerSteamID |-> n[i].id, playerSide |-> Label(side)]])

\* A round description: [t, ct, nFrames, framesNone, killMode, isWarmup, badTime,
\* reason, score]; uid is the round's place in the loaded record
MkRound(d, uid) ==
    [uid |-> uid, roundNum |-> uid, isWarmup |-> d.isWarmup,
     startTick |-> 10 * uid, freezeTimeEndTick |-> 10 * uid + 1,
     endTick |-> IF d.badTime THEN 10 * uid - 1 ELSE 10 * uid + 5,
     endOfficialTick |-> 10 * uid + 6,
     tScore |-> d.score[1], ctScore |-> d.score[2],
     endTScore |-> d.score[3], endCTScore |-> d.score[4],
     roundEndReason |-> d.reason,
     kills |-> MkKills(d.t, d.ct, d.killMode), killsNone |-> d.killMode = "null",
     damages |-> MkDamages(d.t, "t", d.ct) \o MkDamages(d.ct, "ct", d.t),
     grenades |-> MkGrenades(d.t, "t") \o MkGrenades(d.ct, "ct"),
     weaponFires |-> MkWeaponFires(d.t, "t") \o MkWeaponFires(d.ct, "ct"),
     flashes |-> MkFlashes(d.t, "t", d.ct) \o MkFlashes(d.ct, "ct", d.t),
     frames |-> IF d.framesNone THEN <<>>
                ELSE Eager([k \in 1..d.nFrames |-> MkFrame(uid, d.t, d.ct, k)]),
     framesNone |-> d.framesNone,
     tSide |-> Eager([i \in DOMAIN d.t |-> [steamID |-> d.t[i].id]]),
     ctSide |-> Eager([i \in DOMAIN d.ct |-> [steamID |-> d.ct[i].id]])]

\* The decoder numbers the frames of a record 0, 1, 2, ... in order
NumberAsDecoder(rounds) ==
    Eager([i \in DOMAIN rounds |->
        [rounds[i] EXCEPT !.frames = NumberFrames(rounds[i].frames, FramesIn(rounds, i - 1))]])

MkGame(mapName, warmupChanged, descs) ==
    [mapName |-> mapName, warmupChanged |-> warmupChanged, roundsNone |-> FALSE,
     gameRounds |-> NumberAsDecoder(Eager([i \in DOMAIN descs |-> MkRound(descs[i], i)]))]

\* n players of kind "ok" with the ids first, first + 1, ...
OkPlayers(first, n) == Eager([i \in 1..n |-> [id |-> first + i - 1, kind |-> "ok"]])

PlainRound ==
    [t |-> OkPlayers(1, 3), ct |-> OkPlayers(11, 3), nFrames |-> 1, framesNone |-> FALSE,
     killMode |-> "normal", isWarmup |-> FALSE, badTime |-> FALSE,
     reason |-> "TargetBombed", score |-> <<0, 0, 1, 0>>]

\* Round i of a record with a plausible score progression: T wins every round
RisingScore(i) == <<i - 1, 0, i, 0>>

WithRisingScores(descs) ==
    Eager([i \in DOMAIN descs |-> [descs[i] EXCEPT !.score = RisingScore(i)]])

\* Family 1: plain rounds with scores drawn freely (a terminal win among them)
ScorePool == {<<0, 0, 1, 0>>, <<1, 0, 1, 1>>, <<1, 1, 2, 1>>, <<15, 14, 16, 14>>}

ScoreGames ==
    {MkGame("de_dust2", TRUE,
            Eager([i \in DOMAIN sc |-> [PlainRound EXCEPT !.score = sc[i]]])) :
        sc \in SeqsUpTo(ScorePool, MaxRounds)}

\* Family 2: rounds the scalar filters are about
DefectPool ==
    {PlainRound,
     [PlainRound EXCEPT !.isWarmup = TRUE],
     [PlainRound EXCEPT !.killMode = "knife"],
     [PlainRound EXCEPT !.killMode = "many"],
     [PlainRound EXCEPT !.killMode = "null"],
     [PlainRound EXCEPT !.badTime = TRUE],
     [PlainRound EXCEPT !.reason = "Draw"],
     [PlainRound EXCEPT !.nFrames = 0],
     [PlainRound EXCEPT !.framesNone = TRUE]}

DefectGames ==
    {MkGame("de_dust2", w, WithRisingScores(ds)) :
        w \in BOOLEAN, ds \in SeqsUpTo(DefectPool, MaxDefectRounds)}

\* Family 3: one round with a varied roster over two frames, then a plain round
ExtraKinds == {"dead", "origin", "still", "wrong", "wrongdead"}

TRosters ==
    {OkPlayers(1, 4) \o [i \in DOMAIN ex |-> [id |-> 4 + i, kind |-> ex[i]]] :
        ex \in SeqsUpTo(ExtraKinds, MaxExtras)}

CTRosters ==
    {OkPlayers(11, 3),
     OkPlayers(11, 2),
     OkPlayers(11, 3) \o <<[id |-> 14, kind |-> "wrongdead"], [id |-> 15, kind |-> "wrongdead"]>>,
     OkPlayers(11, 4) \o <<[id |-> 15, kind |-> "dead"], [id |-> 16, kind |-> "still"]>>}

RosterMaps == {"de_inferno", "de_mirage", "de_dust2"}

RosterGames ==
    {MkGame(m, TRUE, WithRisingScores(
        <<[PlainRound EXCEPT !.t = tr, !.ct = ctr, !.nFrames = 2], PlainRound>>)) :
        m \in RosterMaps, tr \in TRosters, ctr \in CTRosters}

NullRoundsGame == [EmptyGame EXCEPT !.mapName = "de_dust2", !.warmupChanged = TRUE]

Games == ScoreGames \cup DefectGames \cup RosterGames \cup {NullRoundsGame}

-----------------------------------------------------------------------------
(* The parser *)

NoFile == [exists |-> FALSE, game |-> EmptyGame]

\* all_flags: the call was clean_rounds with every stage enabled (its defaults)
Called(op, result) == [op |-> op, result |-> result, all_flags |-> FALSE]

\* A parse_rate value: an int, or a value of another type
IntRate(n) == [isInt |-> TRUE, value |-> n]

NonIntRate == [isInt |-> FALSE, value |-> 0]

\* The defaults of self.parser_args
DefaultArgs == [trade_time |-> 5, parse_rate |-> IntRate(128), buy_style |-> "hltv"]

\* get_args(BuyStyle)
BuyStyles == {"hltv", "csgo"}

CheckTradeTime(a) ==
    IF a.trade_time <= 0 THEN [a EXCEPT !.trade_time = 5] ELSE a

CheckParseRate(a) ==
    IF ~a.parse_rate.isInt \/ a.parse_rate.value < 1
    THEN [a EXCEPT !.parse_rate = IntRate(128)]
    ELSE a

CheckBuyStyle(a) ==
    IF a.buy_style \notin BuyStyles THEN [a EXCEPT !.buy_style = "hltv"] ELSE a

\* parser_args.update(parser_args) and the three checks of __init__
Construct(a) == CheckBuyStyle(CheckParseRate(CheckTradeTime(a)))

\* The tunables a parser is constructed with
GivenArgs ==
    [trade_time : {-1, 0, 8},
     parse_rate : {NonIntRate, IntRate(0), IntRate(1), IntRate(3), IntRate(256)},
     buy_style : {"csgo", "valve"}]

\* __init__ called with tunables of A: no record is loaded; parse_frames is a
\* constructor argument
InitWith(A) ==
    /\ hasJson = FALSE
    /\ json = EmptyGame
    /\ parse_frames \in BOOLEAN
    /\ outFile = NoFile
    /\ last = Called("__init__", "ok")
    /\ pc = 0
    /\ flags = {}
    /\ calls = <<>>
    /\ nCalls = 0
    /\ loaded = EmptyGame
    /\ given \in A
    /\ args = Construct(given)
    /\ parse_error = FALSE

Init == InitWith({DefaultArgs})

\* read_json of an existing file holding a record of the family G, called once
\* per parser in the model
ReadJsonFrom(G) ==
    /\ ~hasJson
    /\ pc = 0
    /\ \E g \in G : json' = g /\ loaded' = g
    /\ hasJson' = TRUE
    /\ last' = Called("read_json", "ok")
    /\ UNCHANGED <<parse_frames, outFile, pc, flags, calls, nCalls, given, args, parse_error>>

ReadJson == ReadJsonFrom(Games)

\* The iteration orders that can differ on the record: more than one first-frame
\* player of some round is to be switched
IterationOrders(g) ==
    IF \E i \in DOMAIN RoundsOrEmpty(g) :
           HasFrames(g.gameRounds[i])
           /\ Cardinality(SwitchedPlayers(g.gameRounds[i], g.mapName)) > 1
    THEN BOOLEAN ELSE {FALSE}

\* Variant: the stage body runs without the test of self.json
StageCallUnchecked(op, result) ==
    /\ pc = 0
    /\ nCalls < MaxCalls
    /\ nCalls' = IF hasJson THEN nCalls + 1 ELSE nCalls
    /\ json' = result
    /\ last' = Called(op, "ok")
    /\ UNCHANGED <<hasJson, parse_frames, outFile, pc, flags, calls, loaded, given, args, parse_error>>

\* if self.json: <stage body> else: raise AttributeError
StageCall(op, result) ==
    /\ pc = 0
    /\ nCalls < MaxCalls
    /\ nCalls' = IF hasJson THEN nCalls + 1 ELSE nCalls
    /\ IF hasJson
       THEN json' = result /\ last' = Called(op, "ok")
       ELSE json' = json /\ last' = Called(op, "AttributeError")
    /\ UNCHANGED <<hasJson, parse_frames, outFile, pc, flags, calls, loaded, given, args, parse_error>>

CallRemoveRoundsWithNoFrames ==
    StageCall("remove_rounds_with_no_frames", RemoveRoundsWithNoFrames(json, parse_frames))

CallRemoveWarmups == StageCall("remove_warmups", RemoveWarmups(json))

CallRemoveKnifeRounds == StageCall("remove_knife_rounds", RemoveKnifeRounds(json))

CallRemoveTimeRounds == StageCall("remove_time_rounds", RemoveTimeRounds(json))

CallRemoveExcessPlayers ==
    /\ ~SwitchRaises(json, parse_frames)
    /\ \E desc \in IterationOrders(json) :
          StageCall("remove_excess_players", RemoveExcessPlayers(json, parse_frames, desc))

CallRemoveExcessKillRounds ==
    StageCall("remove_excess_kill_rounds", RemoveExcessKillRounds(json))

BadEndingsArgs == {NoBadEndings, [isNone |-> FALSE, list |-> {"TargetBombed"}]}

CallRemoveEndRound ==
    \E bad_endings \in BadEndingsArgs :
        StageCall("remove_end_round", RemoveEndRound(json, bad_endings))

CallRemoveBadScoring == StageCall("remove_bad_scoring", RemoveBadScoring(json))

CallRenumberRounds == StageCall("renumber_rounds", RenumberRounds(json))

CallRenumberFrames == StageCall("renumber_frames", RenumberFrames(json))

ReturnTypes == {"json", "df", "csv"}

FlagSets ==
    {F \in SUBSET Stages : Cardinality(Stages \ F) <= MaxOff \/ Cardinality(F) <= MaxOn}

\* The calls of clean_rounds the model makes: the flag combinations with at most
\* MaxOff stages disabled or at most MaxOn stages enabled, with the default
\* return_type and save_to_json, and the default flags with every return_type and
\* save_to_json
CleanArgs ==
    {[F |-> F, return_type |-> "json", save_to_json |-> TRUE] : F \in FlagSets}
    \cup {[F |-> Stages, return_type |-> rt, save_to_json |-> sv] :
             rt \in ReturnTypes, sv \in BOOLEAN}

ReturnResult(return_type) ==
    IF return_type \in {"json", "df"} THEN "ok" ELSE "ValueError"

\* write_json, when save_to_json is set
WriteJson(file, g, save_to_json) ==
    IF save_to_json THEN [exists |-> TRUE, game |-> g] ELSE file

\* The stage behind clean_rounds's flag remove_excess_players is reached without
\* a TypeError
CleanDoesNotRaise(g, pf, F) ==
    "remove_excess_players" \in F => ~SwitchRaises(RunPipeline(g, pf, F, FALSE, 4), pf)

\* clean_rounds as one call
CallCleanRounds ==
    /\ pc = 0
    /\ nCalls < MaxCalls
    /\ nCalls' = IF hasJson THEN nCalls + 1 ELSE nCalls
    /\ IF hasJson
       THEN \E a \in CleanArgs : \E desc \in IterationOrders(json) :
               /\ CleanDoesNotRaise(json, parse_frames, a.F)
               /\ json' = CleanRounds(json, parse_frames, a.F, desc)
               /\ outFile' = WriteJson(outFile, json', a.save_to_json)
               /\ last' = [op |-> "clean_rounds", result |-> ReturnResult(a.return_type),
                           all_flags |-> a.F = Stages]
       ELSE /\ json' = json
            /\ outFile' = outFile
            /\ last' = Called("clean_rounds", "AttributeError")
    /\ UNCHANGED <<hasJson, parse_frames, pc, flags, calls, loaded, given, args, parse_error>>

Next ==
    \/ ReadJson
    \/ CallRemoveRoundsWithNoFrames
    \/ CallRemoveWarmups
    \/ CallRemoveKnifeRounds
    \/ CallRemoveTimeRounds
    \/ CallRemoveExcessPlayers
    \/ CallRemoveExcessKillRounds
    \/ CallRemoveEndRound
    \/ CallRemoveBadScoring
    \/ CallRenumberRounds
    \/ CallRenumberFrames
    \/ CallCleanRounds

Spec == Init /\ [][Next]_vars

-----------------------------------------------------------------------------
(* The roster operations called on one round of the loaded record *)

\* The roster records of one map
RoundGames == {g \in RosterGames : g.mapName = "de_inferno"}

ReadRosterJson == ReadJsonFrom(RoundGames)

\* The steam ids a round mentions, and one it does not
AbsentId == 99

RoundIds(r) ==
    {r.tSide[i].steamID : i \in DOMAIN r.tSide}
    \cup {r.ctSide[i].steamID : i \in DOMAIN r.ctSide}
    \cup UNION {{r.frames[k].t[i].steamID : i \in DOMAIN r.frames[k].t}
                \cup {r.frames[k].ct[i].steamID : i \in DOMAIN r.frames[k].ct} :
                    k \in DOMAIN r.frames}

\* switch_player_side(game_round, switched_steamID) on a round of the record
\* (a round whose frames or kills are null raises TypeError there)
CallSwitchPlayerSide ==
    /\ pc = 0
    /\ hasJson
    /\ nCalls < MaxCalls
    /\ nCalls' = IF hasJson THEN nCalls + 1 ELSE nCalls
    /\ \E i \in DOMAIN RoundsOrEmpty(json) :
          /\ ~json.gameRounds[i].framesNone
          /\ ~json.gameRounds[i].killsNone
          /\ \E id \in RoundIds(json.gameRounds[i]) \cup {AbsentId} :
                json' = [json EXCEPT !.gameRounds[i] = SwitchPlayerSide(@, id)]
    /\ last' = Called("switch_player_side", "ok")
    /\ UNCHANGED <<hasJson, parse_frames, outFile, pc, flags, calls, loaded, given, args, parse_error>>

NextRound ==
    \/ ReadRosterJson
    \/ CallSwitchPlayerSide
    \/ CallRemoveExcessPlayers

SpecRound == Init /\ [][NextRound]_vars

-----------------------------------------------------------------------------
(* clean_rounds followed stage by stage *)

StepGames ==
    {MkGame("de_dust2", w, WithRisingScores(ds)) :
        w \in BOOLEAN, ds \in SeqsUpTo(DefectPool, MaxStepRounds)}

ReadStepJson == ReadJsonFrom(StepGames)

\* clean_rounds is entered with the flags F; without a record it raises at once
CleanEnter ==
    /\ pc = 0
    /\ nCalls < MaxCalls
    /\ nCalls' = IF hasJson THEN nCalls + 1 ELSE nCalls
    /\ IF hasJson
       THEN /\ \E F \in SUBSET Stages : flags' = F
            /\ pc' = 1
            /\ last' = last
       ELSE /\ flags' = flags
            /\ pc' = pc
            /\ last' = Called("clean_rounds", "AttributeError")
    /\ calls' = <<>>
    /\ UNCHANGED <<hasJson, json, parse_frames, outFile, loaded, given, args, parse_error>>

\* The next if statement of clean_rounds: the stage is called when its flag is set
CleanStage ==
    /\ pc \in DOMAIN PipelineOrder
    /\ IF StageEnabled(PipelineOrder[pc], flags)
       THEN /\ PipelineOrder[pc] = "remove_excess_players" => ~SwitchRaises(json, parse_frames)
            /\ \E desc \in IterationOrders(json) :
                  json' = RunStage(PipelineOrder[pc], json, parse_frames, desc)
            /\ calls' = Append(calls, PipelineOrder[pc])
       ELSE /\ json' = json
            /\ calls' = calls
    /\ pc' = pc + 1
    /\ UNCHANGED <<hasJson, parse_frames, outFile, last, flags, nCalls, loaded, given, args, parse_error>>

\* The end of clean_rounds: write_json and the return
CleanReturn ==
    /\ pc = Len(PipelineOrder) + 1
    /\ \E rt \in ReturnTypes, sv \in BOOLEAN :
          /\ outFile' = WriteJson(outFile, json, sv)
          /\ last' = [op |-> "clean_rounds", result |-> ReturnResult(rt),
                      all_flags |-> flags = Stages]
    /\ pc' = 0
    /\ flags' = {}
    /\ calls' = <<>>
    /\ UNCHANGED <<hasJson, json, parse_frames, nCalls, loaded, given, args, parse_error>>

NextSteps ==
    \/ ReadStepJson
    \/ CleanEnter
    \/ CleanStage
    \/ CleanReturn

SpecSteps == Init /\ [][NextSteps]_vars

-----------------------------------------------------------------------------
(* parse_demo and parse: the decoder is run and its output file is read *)

InitParse == InitWith(GivenArgs)

\* The records the decoder writes
DecoderGames ==
    {MkGame("de_dust2", w, WithRisingScores(ds)) :
        w \in BOOLEAN,
        ds \in {<<PlainRound, PlainRound>>,
                <<[PlainRound EXCEPT !.isWarmup = TRUE], PlainRound, PlainRound>>}}

\* The file at self.output_file after the decoder has run: written, or left as
\* it was
DecoderOutcomes(file) == {file} \cup {[exists |-> TRUE, game |-> g] : g \in DecoderGames}

\* The checks of parse_demo before the decoder is started: the Go version and
\* the demofile path
ParseDemoChecks == {"ok", "ValueError", "FileNotFoundError: Demofile path does not exist!"}

\* read_json of a path that does not exist
NoJsonPath == "FileNotFoundError: JSON path does not exist!"

\* Variant: parse_error is set whenever the decoder has run
ParseErrorAlways(file) == TRUE

\* Variant: parse_error is left False
ParseErrorNever(file) == FALSE

\* self.parse_error after the decoder has run
ParseError(file) == ~file.exists

ParseDemo ==
    /\ pc = 0
    /\ \E check \in ParseDemoChecks :
          /\ last' = Called("parse_demo", check)
          /\ IF check = "ok"
             THEN /\ outFile' \in DecoderOutcomes(outFile)
                  /\ parse_error' = ParseError(outFile')
             ELSE UNCHANGED <<outFile, parse_error>>
    /\ UNCHANGED <<hasJson, json, parse_frames, pc, flags, calls, nCalls, loaded, given, args>>

\* parse(return_type, clean): parse_demo, read_json of the output file,
\* clean_rounds with its defaults when clean is set, and the return
Parse ==
    /\ pc = 0
    /\ \E check \in ParseDemoChecks, return_type \in ReturnTypes, clean \in BOOLEAN :
          IF check # "ok"
          THEN /\ last' = Called("parse", check)
               /\ UNCHANGED <<hasJson, json, outFile, loaded, parse_error>>
          ELSE \E file \in DecoderOutcomes(outFile) :
                  /\ parse_error' = ParseError(file)
                  /\ IF ~file.exists
                     THEN /\ last' = Called("parse", NoJsonPath)
                          /\ outFile' = file
                          /\ UNCHANGED <<hasJson, json, loaded>>
                     ELSE /\ hasJson' = TRUE
                          /\ loaded' = file.game
                          /\ IF clean
                             THEN /\ json' = CleanRounds(file.game, parse_frames, Stages, FALSE)
                                  /\ outFile' = WriteJson(file, json', TRUE)
                             ELSE /\ json' = file.game
                                  /\ outFile' = file
                          /\ last' = Called("parse", ReturnResult(return_type))
    /\ UNCHANGED <<parse_frames, pc, flags, calls, nCalls, given, args>>

NextParse ==
    \/ ParseDemo
    \/ Parse

SpecParse == InitParse /\ [][NextParse]_vars

-----------------------------------------------------------------------------
(* The score checker called on records with every pair of end scores *)

\* Records of two rounds: the first with end scores up to MaxScore on each side,
\* the second with a summed score of 0, so that the first is kept only as a
\* terminal win
WinGames ==
    {MkGame("de_dust2", TRUE,
            <<[PlainRound EXCEPT !.score = <<0, 0, a, b>>],
              [PlainRound EXCEPT !.score = <<0, 0, 0, 0>>]>>) :
        a \in 0..MaxScore, b \in 0..MaxScore}

ReadScoreJson == ReadJsonFrom(WinGames)

NextScore ==
    \/ ReadScoreJson
    \/ CallRemoveBadScoring

SpecScore == Init /\ [][NextScore]_vars

-----------------------------------------------------------------------------
(* The roster normaliser called on records of every map, with players placed  *)
(* on both sides of both axes                                                 *)

SideMaps ==
    {"de_ancient", "de_anubis", "de_inferno", "de_mirage", "de_nuke", "de_overpass",
     "de_vertigo", "de_dust2", "de_train"}

Coordinates == {-1, 0, 1}

At(id, x, y) == [id |-> id, kind |-> "at", x |-> x, y |-> y]

\* Records of one round with two frames: three players at the spawn of their
\* side and one placed freely, on each side
SideGames ==
    {MkGame(m, TRUE,
            <<[PlainRound EXCEPT !.t = <<At(1, p[1], p[2])>> \o OkPlayers(2, 3),
                                 !.ct = <<At(11, q[1], q[2])>> \o OkPlayers(12, 3),
                                 !.nFrames = 2]>>) :
        m \in SideMaps, p \in Coordinates \X Coordinates, q \in Coordinates \X Coordinates}

ReadSideJson == ReadJsonFrom(SideGames)

NextSide ==
    \/ ReadSideJson
    \/ CallRemoveExcessPlayers

SpecSide == Init /\ [][NextSide]_vars

-----------------------------------------------------------------------------
(* The roster normaliser called on records with oversized sides: players that *)
(* do not move and players that die, listed in any order of their steam ids   *)

\* The players added to the four T players 21..24 (a bot has steam id 0)
ElimPool ==
    {[id |-> 9, kind |-> "dead"], [id |-> 2, kind |-> "dead"], [id |-> 0, kind |-> "dead"],
     [id |-> 7, kind |-> "deadlate"], [id |-> 4, kind |-> "still"],
     [id |-> 6, kind |-> "still"], [id |-> 5, kind |-> "origin"]}

ElimTRosters ==
    {OkPlayers(21, 4) \o ex :
        ex \in {s \in SeqsUpTo(ElimPool, MaxElimExtras) :
                    \A i, j \in DOMAIN s : s[i].id = s[j].id => i = j}}

ElimCTRosters ==
    {OkPlayers(31, 3),
     OkPlayers(31, 4) \o <<[id |-> 39, kind |-> "dead"], [id |-> 35, kind |-> "dead"]>>,
     OkPlayers(31, 4) \o <<[id |-> 10, kind |-> "deadlate"], [id |-> 0, kind |-> "dead"],
                           [id |-> 8, kind |-> "dead"]>>}

\* A side of 5 players and MaxDead more that die in the second frame
Oversized(first) ==
    OkPlayers(first, 5)
    \o Eager([i \in 1..MaxDead |-> [id |-> first + 4 + i, kind |-> "dead"]])

\* Records of one round with three frames, no steam id on both sides
ElimGames ==
    {MkGame("de_dust2", TRUE,
            <<[PlainRound EXCEPT !.t = p[1], !.ct = p[2], !.nFrames = 3]>>) :
        p \in {q \in (ElimTRosters \cup {Oversized(51)}) \X (ElimCTRosters \cup {Oversized(71)}) :
                  \A a \in DOMAIN q[1], b \in DOMAIN q[2] : q[1][a].id # q[2][b].id}}

ReadElimJson == ReadJsonFrom(ElimGames)

NextElim ==
    \/ ReadElimJson
    \/ CallRemoveExcessPlayers

SpecElim == Init /\ [][NextElim]_vars

-----------------------------------------------------------------------------
(* Properties *)

Rounds == RoundsOrEmpty(json)

LoadedRounds == RoundsOrEmpty(loaded)

Cleaned == hasJson /\ pc = 0 /\ last.op = "clean_rounds"

\* The globalFrameID values of the record's frames, round by round
FrameIds(g) ==
    Flatten(Eager([i \in DOMAIN RoundsOrEmpty(g) |->
        Eager([k \in DOMAIN OrEmpty(g.gameRounds[i].framesNone, g.gameRounds[i].frames) |->
                  g.gameRounds[i].frames[k].globalFrameID])]))

\* The places the record's rounds had in the loaded record
Uids(g) == Eager([i \in DOMAIN RoundsOrEmpty(g) |-> g.gameRounds[i].uid])

\* C1: after clean_rounds returns successfully, whatever the flags, the surviving
\* rounds are numbered 1..N in order and the globalFrameID values of their frames,
\* read round by round and frame by frame, are 0..M-1 with no gap or repeat.
C1_Contiguous ==
    (Cleaned /\ last.result = "ok") =>
        /\ \A i \in DOMAIN Rounds : Rounds[i].roundNum = i
        /\ \A j \in DOMAIN FrameIds(json) : FrameIds(json)[j] = j - 1

\* clean_rounds with some stage disabled has dropped a round of the loaded record
\* and left at least two rounds and two frames
C1_Witness ==
    /\ Cleaned /\ last.result = "ok" /\ ~last.all_flags
    /\ Len(Rounds) >= 2
    /\ Len(FrameIds(json)) >= 2
    /\ \E i \in DOMAIN Rounds : Rounds[i].uid # i

\* C2: after clean_rounds with the default flags on a parser whose parse_frames
\* is set, every surviving round has frames and its first frame lists between 3
\* and 5 players on each side.
C2_RosterBound ==
    (Cleaned /\ last.all_flags /\ parse_frames) =>
        \A i \in DOMAIN Rounds :
            /\ HasFrames(Rounds[i])
            /\ \A side \in {"t", "ct"} :
                  /\ Len(Rounds[i].frames[1][side]) >= 3
                  /\ Len(Rounds[i].frames[1][side]) <= 5

\* A round survives the default pipeline with 5 players on the T side after a
\* player that still throws a grenade in it was removed from its frames
C2_Witness ==
    /\ Cleaned /\ last.all_flags /\ parse_frames
    /\ \E i \in DOMAIN Rounds :
          /\ Len(Rounds[i].frames[1].t) = 5
          /\ \E j \in DOMAIN Rounds[i].grenades :
                Rounds[i].grenades[j].throwerSteamID \notin
                    Range(SteamIds(Rounds[i].frames[1].t \o Rounds[i].frames[1].ct))

\* C3: a clean_rounds call with the default flags that follows a clean_rounds call
\* with the default flags leaves the record as it found it.
C3_Idempotent ==
    [][(/\ Cleaned /\ last.all_flags
        /\ nCalls' = nCalls + 1
        /\ last'.op = "clean_rounds" /\ last'.all_flags) => json' = json]_vars

\* Two player lists hold the same players, in any order
SamePlayers(a, b) ==
    /\ Len(a) = Len(b)
    /\ \A x \in Range(a) \cup Range(b) :
          Cardinality({i \in DOMAIN a : a[i] = x}) = Cardinality({i \in DOMAIN b : b[i] = x})

SameFrame(a, b) ==
    /\ [a EXCEPT !.t = <<>>, !.ct = <<>>] = [b EXCEPT !.t = <<>>, !.ct = <<>>]
    /\ SamePlayers(a.t, b.t)
    /\ SamePlayers(a.ct, b.ct)

\* Two rounds are equal up to the order of the players inside a list
SameRound(a, b) ==
    /\ [a EXCEPT !.tSide = <<>>, !.ctSide = <<>>, !.frames = <<>>]
         = [b EXCEPT !.tSide = <<>>, !.ctSide = <<>>, !.frames = <<>>]
    /\ SamePlayers(a.tSide, b.tSide)
    /\ SamePlayers(a.ctSide, b.ctSide)
    /\ Len(a.frames) = Len(b.frames)
    /\ \A k \in DOMAIN a.frames : SameFrame(a.frames[k], b.frames[k])

\* C4: switching the same player twice in a round restores the round's rosters,
\* the side lists and labels of every frame and every event side label, up to
\* the order of the players inside a list.
C4_SwitchTwice ==
    hasJson =>
        \A i \in DOMAIN Rounds :
            (~Rounds[i].framesNone /\ ~Rounds[i].killsNone) =>
                \A id \in RoundIds(Rounds[i]) \cup {AbsentId} :
                    SameRound(SwitchPlayerSide(SwitchPlayerSide(Rounds[i], id), id), Rounds[i])

\* Two switch_player_side calls have reordered a list of the loaded record and
\* left every round equal to the loaded one up to that order
C4_Witness ==
    /\ hasJson /\ last.op = "switch_player_side" /\ nCalls = 2
    /\ json # loaded
    /\ Len(Rounds) = Len(LoadedRounds)
    /\ \A i \in DOMAIN Rounds : SameRound(Rounds[i], LoadedRounds[i])

\* The sides a round gives to the player id: by roster, by frame list, by frame
\* label and by the side label of the events that name the player
SidesOf(r, id) ==
    {"T" : i \in {j \in DOMAIN r.tSide : r.tSide[j].steamID = id}}
    \cup {"CT" : i \in {j \in DOMAIN r.ctSide : r.ctSide[j].steamID = id}}
    \cup UNION {{"T" : i \in {j \in DOMAIN r.frames[k].t : r.frames[k].t[j].steamID = id}}
                \cup {"CT" : i \in {j \in DOMAIN r.frames[k].ct : r.frames[k].ct[j].steamID = id}}
                \cup {p.side : p \in {q \in Range(r.frames[k].t) \cup Range(r.frames[k].ct) :
                                         q.steamID = id}} :
                    k \in DOMAIN r.frames}
    \cup {e.attackerSide : e \in {x \in Range(r.kills) \cup Range(r.damages) \cup Range(r.flashes) :
                                     x.attackerSteamID = id}}
    \cup {e.victimSide : e \in {x \in Range(r.kills) \cup Range(r.damages) :
                                   x.victimSteamID = id}}
    \cup {e.throwerSide : e \in {x \in Range(r.grenades) : x.throwerSteamID = id}}
    \cup {e.playerSide : e \in {x \in Range(r.weaponFires) \cup Range(r.flashes) :
                                   x.playerSteamID = id}}

\* The steam ids a round's rosters, frames and events name
NamedIds(r) ==
    RoundIds(r)
    \cup {e.attackerSteamID : e \in Range(r.kills) \cup Range(r.damages) \cup Range(r.flashes)}
    \cup {e.victimSteamID : e \in Range(r.kills) \cup Range(r.damages)}
    \cup {e.throwerSteamID : e \in Range(r.grenades)}
    \cup {e.playerSteamID : e \in Range(r.weaponFires) \cup Range(r.flashes)}

\* C5: after clean_rounds, in every surviving round each player is on one side
\* only: roster membership, the frame list holding the player, the label in each
\* frame and the side label of every event naming the player all agree.
C5_OneSide ==
    Cleaned =>
        \A i \in DOMAIN Rounds : \A id \in NamedIds(Rounds[i]) :
            Cardinality(SidesOf(Rounds[i], id)) <= 1

\* A surviving round lists on its CT side a player that the loaded record listed
\* on the T side of that round, and that fires a weapon in it
C5_Witness ==
    /\ Cleaned
    /\ \E i \in DOMAIN Rounds : \E j \in DOMAIN Rounds[i].weaponFires :
          LET id == Rounds[i].weaponFires[j].playerSteamID
          IN  /\ id \in Range(SteamIds(Rounds[i].frames[1].ct))
              /\ id \in Range(SteamIds(LoadedRounds[Rounds[i].uid].frames[1].t))

\* The order of the optional stages
StageOrder ==
    <<"remove_no_frames", "remove_warmups", "remove_knifes", "remove_bad_timings",
      "remove_excess_players", "remove_excess_kills", "remove_bad_endings",
      "remove_bad_scoring">>

ExpectedCalls(F) ==
    SelectSeq(StageOrder, LAMBDA st : st \in F) \o <<"renumber_rounds", "renumber_frames">>

IsPrefix(s, t) == Len(s) <= Len(t) /\ s = SubSeq(t, 1, Len(s))

\* C6: clean_rounds calls the enabled stages in the order no-frames, warmup,
\* knife, bad-timing, roster normaliser, excess-kills, bad-end-reason, score
\* checker, and then renumber_rounds and renumber_frames, whatever the flags.
C6_FixedOrder ==
    /\ pc \in DOMAIN PipelineOrder => IsPrefix(calls, ExpectedCalls(flags))
    /\ pc = Len(PipelineOrder) + 1 => calls = ExpectedCalls(flags)

\* clean_rounds with two stages enabled has made its last stage call
C6_Witness ==
    /\ pc = Len(PipelineOrder) + 1
    /\ flags = {"remove_bad_scoring", "remove_warmups"}
    /\ calls = <<"remove_warmups", "remove_bad_scoring", "renumber_rounds", "renumber_frames">>

CleaningOps ==
    {"clean_rounds", "remove_rounds_with_no_frames", "remove_warmups", "remove_knife_rounds",
     "remove_time_rounds", "remove_excess_players", "remove_excess_kill_rounds",
     "remove_end_round", "remove_bad_scoring", "renumber_rounds", "renumber_frames"}

\* C7: while no record is loaded, every call of clean_rounds, of a stage or of a
\* renumbering operation raises AttributeError, runs no stage, writes no file and
\* leaves the parser state as it was.
C7_NoRecord ==
    [][(~hasJson /\ ~hasJson') =>
          /\ last'.op \in CleaningOps
          /\ last'.result = "AttributeError"
          /\ UNCHANGED <<json, parse_frames, outFile, pc, flags, calls, loaded, given, args, parse_error>>]_vars

\* clean_rounds has been called on a parser without a record
C7_Witness ==
    /\ ~hasJson
    /\ last = Called("clean_rounds", "AttributeError")
    /\ json = EmptyGame
    /\ outFile = NoFile

\* The ticks of a round's frames, in order
Ticks(r) == Eager([k \in DOMAIN r.frames |-> r.frames[k].tick])

\* C8: every cleaning call on a loaded record leaves an order-preserving
\* subsequence of the rounds it found, and every round it leaves has the frames
\* it had, in the same order.
C8_Subsequence ==
    [][(hasJson /\ nCalls' = nCalls + 1) =>
          /\ IsSubseq(Uids(json'), Uids(json))
          /\ \A i \in DOMAIN RoundsOrEmpty(json') : \A j \in DOMAIN Rounds :
                Rounds[j].uid = json'.gameRounds[i].uid =>
                    /\ Ticks(json'.gameRounds[i]) = Ticks(Rounds[j])
                    /\ json'.gameRounds[i].framesNone = Rounds[j].framesNone]_vars

\* remove_bad_scoring has dropped a round from between two rounds it kept
C8_Witness ==
    /\ hasJson /\ last.op = "remove_bad_scoring" /\ nCalls = 1
    /\ \E i \in DOMAIN Rounds : i > 1 /\ Rounds[i].uid > Rounds[i - 1].uid + 1
    /\ \A i \in DOMAIN Rounds : Rounds[i].frames # <<>>

\* C9: after remove_bad_scoring every surviving round but the last that is not a
\* terminal win has a summed score strictly below that of the next survivor.
C9_ValidProgression ==
    (hasJson /\ pc = 0 /\ last.op = "remove_bad_scoring") =>
        \A i \in 1..(Len(Rounds) - 1) :
            \/ HasWinnerAndNotWinner(Rounds[i])
            \/ TotalScore(Rounds[i]) < TotalScore(Rounds[i + 1])

\* The players of every frame of every round, side by side
RosterView(g) ==
    Eager([i \in DOMAIN RoundsOrEmpty(g) |->
        [uid |-> g.gameRounds[i].uid,
         t |-> Range(SteamIds(g.gameRounds[i].tSide)),
         ct |-> Range(SteamIds(g.gameRounds[i].ctSide)),
         frames |-> Eager([k \in DOMAIN g.gameRounds[i].frames |->
                       [t |-> Range(SteamIds(g.gameRounds[i].frames[k].t)),
                        ct |-> Range(SteamIds(g.gameRounds[i].frames[k].ct))]])]])

\* C10: clean_rounds with the default flags gives the same rounds and, per side,
\* the same players whatever the iteration order of the switched-player set.
C10_OrderIndependent ==
    (hasJson /\ pc = 0 /\ CleanDoesNotRaise(json, parse_frames, Stages)) =>
        RosterView(CleanRounds(json, parse_frames, Stages, FALSE))
            = RosterView(CleanRounds(json, parse_frames, Stages, TRUE))

\* A call of the operation op on the loaded record
StepOf(op) == hasJson /\ nCalls' = nCalls + 1 /\ last'.op = op

\* after holds the rounds of before in order, without exactly those that Drop
\* selects
DropsExactly(before, after, Drop(_)) ==
    /\ IsSubseq(Uids(after), Uids(before))
    /\ \A i \in DOMAIN RoundsOrEmpty(before) :
          (before.gameRounds[i].uid \in Range(Uids(after))) <=> ~Drop(before.gameRounds[i])

\* The round has a kill and every kill of it is a knife kill (a null kill list
\* counts as empty)
AllKnife(r) ==
    /\ Len(OrEmpty(r.killsNone, r.kills)) >= 1
    /\ \A i \in DOMAIN OrEmpty(r.killsNone, r.kills) : r.kills[i].weapon = "Knife"

\* C11: remove_knife_rounds drops a round exactly when the round has at least one
\* kill and every kill of it has weapon "Knife"; every other round is kept, in
\* order: a round without kills, a round with a null kill list and a round with
\* only some knife kills.
C11_KnifeFilter ==
    [][StepOf("remove_knife_rounds") => DropsExactly(json, json', AllKnife)]_vars

\* The blacklist of remove_end_round for the argument bad_endings
Blacklist(bad_endings) ==
    IF bad_endings.isNone THEN {"Draw", "Unknown", ""} ELSE bad_endings.list

\* C12: remove_end_round drops exactly the rounds whose roundEndReason is in the
\* blacklist and keeps the others in order; without an argument the blacklist is
\* {"Draw", "Unknown", ""}, and a list given by the caller replaces it.
C12_EndReasonFilter ==
    hasJson =>
        \A bad_endings \in BadEndingsArgs :
            DropsExactly(json, RemoveEndRound(json, bad_endings),
                         LAMBDA r : r.roundEndReason \in Blacklist(bad_endings))

\* remove_end_round has dropped a round ending with "Draw" and kept a round
\* ending with "TargetBombed"
C12_Witness ==
    /\ hasJson /\ last.op = "remove_end_round" /\ nCalls = 1
    /\ \E i \in DOMAIN LoadedRounds :
          /\ LoadedRounds[i].roundEndReason = "Draw"
          /\ LoadedRounds[i].uid \notin Range(Uids(json))
    /\ \E i \in DOMAIN Rounds : Rounds[i].roundEndReason = "TargetBombed"

\* The first-frame players of a round at (0,0,0)
OriginPlayers(r) ==
    {q.steamID : q \in {x \in Range(r.frames[1].t) \cup Range(r.frames[1].ct) : AtOrigin(x)}}

\* A round with 6 T players in its first frame, one of them at (0,0,0), and no
\* other reason for the normaliser to change a list: at most 5 CT players, none
\* at (0,0,0), and every other player on the side its position gives
OneCoachOnT(r, mapName) ==
    /\ HasFrames(r)
    /\ Len(r.frames[1].t) = 6
    /\ Len(r.frames[1].ct) <= 5
    /\ Cardinality(OriginPlayers(r)) = 1
    /\ OriginPlayers(r) \subseteq Range(SteamIds(r.frames[1].t))
    /\ SwitchedPlayers(r, mapName) \subseteq OriginPlayers(r)

\* C13: when remove_excess_players processes a round whose first frame has 6 T
\* players, one of them at (0,0,0), the T side is left with 5 players and the
\* steam id of that player is no longer in the rosters, in any frame's player
\* lists or in any event list of the round.
C13_CoachRemoved ==
    [][(StepOf("remove_excess_players") /\ parse_frames) =>
          \A i \in DOMAIN Rounds : \A j \in DOMAIN RoundsOrEmpty(json') :
              (/\ OneCoachOnT(Rounds[i], json.mapName)
               /\ json'.gameRounds[j].uid = Rounds[i].uid) =>
                  /\ Len(json'.gameRounds[j].frames[1].t) = 5
                  /\ OriginPlayers(Rounds[i]) \cap NamedIds(json'.gameRounds[j]) = {}]_vars

\* C14: remove_warmups drops the rounds flagged isWarmup and keeps the others in
\* order; when the match phases hold no warmupChanged marker it keeps every round.
C14_WarmupFilter ==
    [][StepOf("remove_warmups") =>
          IF json.warmupChanged
          THEN DropsExactly(json, json', LAMBDA r : r.isWarmup)
          ELSE Uids(json') = Uids(json)]_vars

\* C15: remove_excess_kill_rounds drops a round exactly when the round is not a
\* warmup round and has more than 10 kills (a null kill list has none), and keeps
\* the other rounds in order.
C15_ExcessKillFilter ==
    [][StepOf("remove_excess_kill_rounds") =>
          DropsExactly(json, json',
              LAMBDA r : ~r.isWarmup /\ Len(OrEmpty(r.killsNone, r.kills)) > 10)]_vars

\* C16: with parse_frames set, remove_rounds_with_no_frames drops exactly the
\* rounds whose frame list is empty or null; with parse_frames unset it leaves
\* the record as it is, and so does remove_excess_players.
C16_NoFramesFilter ==
    [][
        /\ StepOf("remove_rounds_with_no_frames") =>
              (IF parse_frames
               THEN /\ DropsExactly(json, json', LAMBDA r : r.framesNone \/ r.frames = <<>>)
                    /\ \A j \in DOMAIN RoundsOrEmpty(json') : \E i \in DOMAIN Rounds :
                          json'.gameRounds[j] = Rounds[i]
               ELSE json' = json)
        /\ (StepOf("remove_excess_players") /\ ~parse_frames) => json' = json
    ]_vars

\* remove_rounds_with_no_frames has dropped a round with an empty frame list or
\* a null one from a record of two rounds and kept the other
C16_Witness ==
    /\ hasJson /\ parse_frames /\ last.op = "remove_rounds_with_no_frames" /\ nCalls = 1
    /\ Len(LoadedRounds) = 2
    /\ Len(Rounds) = 1
    /\ \E i \in DOMAIN LoadedRounds :
          /\ LoadedRounds[i].uid \notin Range(Uids(json))
          /\ LoadedRounds[i].framesNone \/ LoadedRounds[i].frames = <<>>

C20_LastRound ==
    [][(StepOf("remove_bad_scoring") /\ Len(Rounds) >= 1) =>
          LET n == Len(Rounds)
          IN  (Rounds[n].uid \in Range(Uids(json'))) <=>
                  (n >= 2 /\ TotalScore(Rounds[n]) > TotalScore(Rounds[n - 1]))]_vars

\* remove_bad_scoring has dropped a last round that is a terminal win and kept
\* the round before it
C20_Witness ==
    /\ hasJson /\ last.op = "remove_bad_scoring" /\ nCalls = 1
    /\ Len(LoadedRounds) >= 2
    /\ HasWinnerAndNotWinner(LoadedRounds[Len(LoadedRounds)])
    /\ LoadedRounds[Len(LoadedRounds)].uid \notin Range(Uids(json))
    /\ LoadedRounds[Len(LoadedRounds) - 1].uid \in Range(Uids(json))

\* The values the documentation gives for parse_rate
DocumentedRates == {IntRate(1), IntRate(2), IntRate(4), IntRate(8), IntRate(16),
                    IntRate(32), IntRate(64), IntRate(128)}

\* C17: construction replaces every invalid tunable by its default and leaves a
\* valid one as given: a trade_time <= 0 becomes 5, a parse_rate that is not one
\* of 1, 2, 4, 8, 16, 32, 64, 128 becomes 128, and a buy_style other than
\* "hltv" and "csgo" becomes "hltv".
C17_TunablesCorrected ==
    last.op = "__init__" =>
        /\ args.trade_time = IF given.trade_time <= 0 THEN 5 ELSE given.trade_time
        /\ args.parse_rate = IF given.parse_rate \in DocumentedRates
                             THEN given.parse_rate ELSE IntRate(128)
        /\ args.buy_style = IF given.buy_style \in {"hltv", "csgo"}
                            THEN given.buy_style ELSE "hltv"

\* C18: after parse_demo has run the decoder, parse_error is True exactly when
\* the output file does not exist; and a parse call that finds no output file
\* ends with an error, loads no record and cleans nothing.
C18_ParseError ==
    [][/\ (last'.op = "parse_demo" /\ last'.result = "ok") =>
              (parse_error' <=> ~outFile'.exists)
       /\ (last'.op = "parse" /\ ~outFile'.exists) =>
              /\ last'.result \in (ParseDemoChecks \ {"ok"}) \cup {NoJsonPath}
              /\ UNCHANGED <<hasJson, json, loaded, outFile>>
       /\ (last'.op = "parse" /\ last'.result = NoJsonPath) =>
              parse_error' /\ ~outFile'.exists]_vars

\* parse has run the decoder, found no output file and ended with an error on a
\* parser without a record
C18_Witness ==
    /\ last = Called("parse", NoJsonPath)
    /\ parse_error
    /\ ~outFile.exists
    /\ ~hasJson

\* One side has won: a regulation win of the side with end score x over the side
\* with end score y, or an overtime win
Wins(x, y) ==
    \/ x = 16 /\ y < 15
    \/ x > 15 /\ (x - 16) % 3 = 0 /\ y <= x - 2

EndScores(t, ct) == [endTScore |-> t, endCTScore |-> ct]

\* C21: a round counts as a terminal win exactly when one side has end score 16
\* and the other less than 15, or one side has an end score above 15 that is 16
\* plus a multiple of 3 and the other side is at least 2 lower; remove_bad_scoring
\* keeps a round in front of a round with no greater summed score exactly in that
\* case.  16-14 and 19-17 are terminal wins; 16-15, 19-18, 17-15 and 15-10 are not.
C21_TerminalWin ==
    [][(StepOf("remove_bad_scoring") /\ Len(Rounds) = 2
            /\ TotalScore(Rounds[2]) <= TotalScore(Rounds[1])) =>
          /\ (Rounds[1].uid \in Range(Uids(json'))) <=>
                 \/ Wins(Rounds[1].endTScore, Rounds[1].endCTScore)
                 \/ Wins(Rounds[1].endCTScore, Rounds[1].endTScore)
          /\ \A e \in {<<16, 14>>, <<19, 17>>} :
                 HasWinnerAndNotWinner(EndScores(e[1], e[2]))
                 /\ HasWinnerAndNotWinner(EndScores(e[2], e[1]))
          /\ \A e \in {<<16, 15>>, <<19, 18>>, <<17, 15>>, <<15, 10>>} :
                 ~HasWinnerAndNotWinner(EndScores(e[1], e[2]))
                 /\ ~HasWinnerAndNotWinner(EndScores(e[2], e[1]))]_vars

\* remove_bad_scoring has kept a first round ending 17-19 in front of a round
\* with a lower summed score
C21_Witness ==
    /\ hasJson /\ last.op = "remove_bad_scoring" /\ nCalls = 1
    /\ Len(LoadedRounds) = 2
    /\ LoadedRounds[1].endTScore = 17 /\ LoadedRounds[1].endCTScore = 19
    /\ TotalScore(LoadedRounds[2]) < TotalScore(LoadedRounds[1])
    /\ LoadedRounds[1].uid \in Range(Uids(json))

\* C27: when the record holds exactly one round, remove_bad_scoring drops it,
\* whatever its scores, a terminal win included: the record is left with no round.
C27_SingleRound ==
    [][(StepOf("remove_bad_scoring") /\ Len(Rounds) = 1) =>
          /\ ~json'.roundsNone
          /\ json'.gameRounds = <<>>]_vars

\* remove_bad_scoring has dropped the only round of a loaded record, a terminal
\* win
C27_Witness ==
    /\ hasJson /\ last.op = "remove_bad_scoring" /\ nCalls = 1
    /\ Len(LoadedRounds) = 1
    /\ HasWinnerAndNotWinner(LoadedRounds[1])
    /\ ~json.roundsNone
    /\ json.gameRounds = <<>>

\* C28: clean_rounds called on a loaded record with a return_type other than
\* "json" and "df" raises ValueError after the stages and the renumbering have
\* changed the record as in a call that returns, and after the output file has
\* been rewritten with that record when save_to_json is set: nothing is undone.
C28_ErrorAfterCleaning ==
    [][(hasJson /\ last'.op = "clean_rounds" /\ last'.result = "ValueError") =>
          /\ \E desc \in BOOLEAN : json' = CleanRounds(json, parse_frames, Stages, desc)
          /\ \A i \in DOMAIN RoundsOrEmpty(json') : json'.gameRounds[i].roundNum = i
          /\ outFile' \in {outFile, [exists |-> TRUE, game |-> json']}]_vars

\* clean_rounds has raised ValueError on a loaded record, having dropped a round
\* of it and written the changed record to the output file
C28_Witness ==
    /\ hasJson /\ last.op = "clean_rounds" /\ last.result = "ValueError" /\ nCalls = 1
    /\ Len(Rounds) >= 1
    /\ Len(Rounds) < Len(LoadedRounds)
    /\ json # loaded
    /\ outFile = [exists |-> TRUE, game |-> json]

\* C29: parse_demo decides by the existence of the output file after the decoder
\* has run, whoever wrote it: with a file of an earlier run at the output path,
\* parse_error is set to False even when the decoder has left the file as it
\* was, and a parse call that returns a record the decoder has not written in
\* this call has loaded that file, cleaned it when asked to, written the result
\* back and returned it without an error.
C29_StaleFile ==
    [][
        /\ (last'.op \in {"parse_demo", "parse"} /\ last'.result = "ok" /\ outFile.exists) =>
              ~parse_error'
        /\ (last'.op = "parse_demo" /\ last'.result = "ok" /\ outFile' = outFile) =>
              (parse_error' <=> ~outFile.exists)
        /\ (last'.op = "parse" /\ last'.result = "ok" /\ loaded' \notin DecoderGames) =>
              /\ outFile.exists
              /\ loaded' = outFile.game
              /\ hasJson'
              /\ json' \in {loaded', CleanRounds(loaded', parse_frames, Stages, FALSE)}
              /\ outFile' = [exists |-> TRUE, game |-> json']
    ]_vars

\* parse has returned, without an error, a record that the decoder did not
\* write in this call: the file an earlier parse call had left, cleaned again
C29_Witness ==
    /\ last = Called("parse", "ok")
    /\ hasJson
    /\ loaded \notin DecoderGames
    /\ Len(Rounds) >= 1
    /\ ~parse_error
    /\ outFile = [exists |-> TRUE, game |-> json]

\* C26: remove_excess_players leaves a round whose first frame has at most 5
\* players on each side as it is (no player removed or switched, no event label
\* changed) and keeps or drops it by the acceptance test alone.
C26_SmallRoundsUntouched ==
    [][(StepOf("remove_excess_players") /\ parse_frames) =>
          \A i \in DOMAIN Rounds :
              (HasFrames(Rounds[i]) /\ ~OverLimit(Rounds[i])) =>
                  IF AcceptedPlayerCounts(Rounds[i])
                  THEN \E j \in DOMAIN RoundsOrEmpty(json') : json'.gameRounds[j] = Rounds[i]
                  ELSE Rounds[i].uid \notin Range(Uids(json'))]_vars

\* The seven maps with a coordinate test, and the test of each
ListedMaps ==
    {"de_ancient", "de_anubis", "de_overpass", "de_vertigo", "de_inferno", "de_nuke",
     "de_mirage"}

CoordinateTest(p, mapName) ==
    CASE mapName \in {"de_ancient", "de_anubis", "de_overpass", "de_vertigo"} -> p.y < 0
      [] mapName \in {"de_inferno", "de_nuke"} -> p.x < 0
      [] mapName = "de_mirage" -> p.x > 0

InferredSide(p, mapName) ==
    IF mapName \in ListedMaps
    THEN (IF CoordinateTest(p, mapName) THEN "T" ELSE "CT")
    ELSE p.side

\* Every player of the first frame is in the list of the side inferred for it
\* and carries its label
OnInferredSides(r, mapName) ==
    /\ \A i \in DOMAIN r.frames[1].t :
          r.frames[1].t[i].side = "T" /\ InferredSide(r.frames[1].t[i], mapName) = "T"
    /\ \A i \in DOMAIN r.frames[1].ct :
          r.frames[1].ct[i].side = "CT" /\ InferredSide(r.frames[1].ct[i], mapName) = "CT"

\* C23: on the seven listed maps the side inferred for a player is T exactly when
\* the map's coordinate test holds on its first-frame position and CT otherwise,
\* and after the side correction every first-frame player is in the list of, and
\* labelled with, the inferred side; on every other map no player is switched.
C23_InferredSide ==
    [][(StepOf("remove_excess_players") /\ parse_frames) =>
          /\ \A i \in DOMAIN Rounds : HasFrames(Rounds[i]) =>
                LET before == CoachesNotMovingStep(CoachesInOriginStep(Rounds[i]))
                IN  \A desc \in BOOLEAN :
                        /\ OnInferredSides(SwitchStep(before, json.mapName, desc), json.mapName)
                        /\ RoundIds(SwitchStep(before, json.mapName, desc)) = RoundIds(before)
                        /\ json.mapName \notin ListedMaps =>
                               SwitchStep(before, json.mapName, desc) = before
          /\ \A j \in DOMAIN RoundsOrEmpty(json') :
                OnInferredSides(json'.gameRounds[j], json.mapName)]_vars

\* remove_excess_players on a de_overpass record has moved a player loaded on
\* the T side with x < 0 and y > 0 to the CT side, and a player loaded on the CT
\* side with x > 0 and y < 0 to the T side
C23_Witness ==
    /\ hasJson /\ last.op = "remove_excess_players" /\ nCalls = 1 /\ parse_frames
    /\ json.mapName = "de_overpass"
    /\ Len(Rounds) = 1 /\ Len(LoadedRounds) = 1
    /\ \E i \in DOMAIN LoadedRounds[1].frames[1].t :
          LET p == LoadedRounds[1].frames[1].t[i]
          IN  /\ p.x < 0 /\ p.y > 0
              /\ [p EXCEPT !.side = "CT"] \in Range(Rounds[1].frames[1].ct)
    /\ \E i \in DOMAIN LoadedRounds[1].frames[1].ct :
          LET p == LoadedRounds[1].frames[1].ct[i]
          IN  /\ p.x > 0 /\ p.y < 0
              /\ [p EXCEPT !.side = "T"] \in Range(Rounds[1].frames[1].t)

\* The players of a frame, both lists
FramePlayers(frame) == Range(frame.t) \cup Range(frame.ct)

\* The steam ids of the first-frame players that every later frame of the round
\* holds, if at all, at their first-frame position
StillIds(r) ==
    {p.steamID : p \in {q \in FramePlayers(r.frames[1]) :
        \A k \in 2..Len(r.frames) : \A o \in FramePlayers(r.frames[k]) :
            o.steamID = q.steamID => (o.x = q.x /\ o.y = q.y /\ o.z = q.z)}}

\* The round without the players of the steam ids S, in the rosters and in
\* every frame
Without(r, S) ==
    [r EXCEPT
        !.tSide = SelectSeq(@, LAMBDA p : p.steamID \notin S),
        !.ctSide = SelectSeq(@, LAMBDA p : p.steamID \notin S),
        !.frames = Eager([k \in DOMAIN r.frames |->
            [r.frames[k] EXCEPT
                !.t = SelectSeq(@, LAMBDA p : p.steamID \notin S),
                !.ct = SelectSeq(@, LAMBDA p : p.steamID \notin S)]])]

\* C22: the removal of players that do not move runs only when a side of the
\* first frame has more than 5 players after the removal of the players at
\* (0,0,0); it removes from the rosters and from every frame exactly the
\* first-frame players whose position is the same in every later frame, and no
\* player whose position differs in a later frame.
C22_StationaryRemoval ==
    [][(StepOf("remove_excess_players") /\ parse_frames) =>
          \A i \in DOMAIN Rounds : HasFrames(Rounds[i]) =>
              LET before == CoachesInOriginStep(Rounds[i])
                  after  == CoachesNotMovingStep(before)
              IN  /\ after = IF OverLimit(before) THEN Without(before, StillIds(before))
                                                  ELSE before
                  /\ (json.mapName \notin ListedMaps /\ ~OverLimit(after)
                          /\ AcceptedPlayerCounts(after)) =>
                        \E j \in DOMAIN RoundsOrEmpty(json') : json'.gameRounds[j] = after]_vars

\* remove_excess_players has removed the players that do not move from a T side
\* of more than 5 players, none of them at (0,0,0), and kept every other player
\* of the round
C22_Witness ==
    /\ hasJson /\ last.op = "remove_excess_players" /\ nCalls = 1 /\ parse_frames
    /\ Len(Rounds) = 1 /\ Len(LoadedRounds) = 1
    /\ Len(LoadedRounds[1].frames[1].t) > 5
    /\ OriginPlayers(LoadedRounds[1]) = {}
    /\ StillIds(LoadedRounds[1]) # {}
    /\ RoundIds(Rounds[1]) = RoundIds(LoadedRounds[1]) \ StillIds(LoadedRounds[1])
    /\ \E p \in FramePlayers(LoadedRounds[1].frames[1]) :
          ~p.isAlive \/ p.steamID \notin StillIds(LoadedRounds[1])

\* The round as the elimination loops find it
PreElimination(r, mapName, desc) ==
    SwitchStep(CoachesNotMovingStep(CoachesInOriginStep(r)), mapName, desc)

\* The steam ids of the players of a side that a frame holds not alive
DeadIn(frame, side) == {p.steamID : p \in {q \in Range(frame[side]) : ~q.isAlive}}

HasDead(r, side) == \E k \in DOMAIN r.frames : DeadIn(r.frames[k], side) # {}

\* The first frame that holds a player of the side not alive
FirstDeadFrame(r, side) ==
    CHOOSE k \in DOMAIN r.frames :
        /\ DeadIn(r.frames[k], side) # {}
        /\ \A m \in 1..(k - 1) : DeadIn(r.frames[m], side) = {}

\* The lowest steam id among the players of the side not alive in that frame
LowestEarliestDead(r, side) ==
    CHOOSE id \in DeadIn(r.frames[FirstDeadFrame(r, side)], side) :
        \A o \in DeadIn(r.frames[FirstDeadFrame(r, side)], side) : id <= o

\* C24: an elimination attempt on a side of more than 5 players removes, from
\* the rosters and from every frame, the player of that side with the lowest
\* steamID among those not alive in the first frame that holds one not alive.
\* Stated for a round that needs one attempt: 6 T players, 3 to 5 CT players,
\* and no steamID 0 among the players not alive.
C24_LowestSteamID ==
    [][(StepOf("remove_excess_players") /\ parse_frames) =>
          \A i \in DOMAIN Rounds : HasFrames(Rounds[i]) =>
              \A desc \in IterationOrders(json) :
                  LET e == PreElimination(Rounds[i], json.mapName, desc)
                  IN  (/\ Len(e.frames[1].t) = 6
                       /\ Len(e.frames[1].ct) \in 3..5
                       /\ HasDead(e, "t")
                       /\ LowestEarliestDead(e, "t") # 0) =>
                          /\ FindFirstDeadPlayer(e, "t").steamID = LowestEarliestDead(e, "t")
                          /\ \E j \in DOMAIN RoundsOrEmpty(json') :
                                \E d \in IterationOrders(json) :
                                    json'.gameRounds[j] =
                                        Without(PreElimination(Rounds[i], json.mapName, d),
                                                {LowestEarliestDead(e, "t")})]_vars

\* C25: for every round and each side, earliest-death elimination makes at most
\* 10 attempts and so removes at most 10 players of the side.
C25_AttemptBound ==
    [][(StepOf("remove_excess_players") /\ parse_frames) =>
          \A i \in DOMAIN Rounds : HasFrames(Rounds[i]) =>
              \A desc \in IterationOrders(json) :
                  LET e == PreElimination(Rounds[i], json.mapName, desc)
                  IN  /\ \A side \in {"t", "ct"} :
                            Len(e.frames[1][side]) - Len(EliminationStep(e).frames[1][side])
                                <= max_loops
                      /\ \A j \in DOMAIN RoundsOrEmpty(json') :
                            json'.gameRounds[j].uid = Rounds[i].uid =>
                                \A side \in {"t", "ct"} :
                                    Len(e.frames[1][side])
                                        - Len(json'.gameRounds[j].frames[1][side]) <= max_loops]_vars

\* The first player of the side not alive, by frame and then by place in the
\* frame's list
EarliestDead(r, side) ==
    LET players == r.frames[FirstDeadFrame(r, side)][side]
        first == CHOOSE n \in DOMAIN players :
                     /\ ~players[n].isAlive
                     /\ \A m \in 1..(n - 1) : players[m].isAlive
    IN  players[first].steamID

\* The side has more than 5 players and its earliest not-alive player has
\* steamID 0
BotDiesFirst(r, side) ==
    /\ Len(r.frames[1][side]) > 5
    /\ HasDead(r, side)
    /\ EarliestDead(r, side) = 0

\* C30: when a side has more than 5 players and its earliest not-alive player
\* has steamID 0, earliest-death elimination removes no player of that side,
\* whatever other players of it are not alive, and the round is dropped by the
\* acceptance test.
C30_SteamIdZero ==
    [][(StepOf("remove_excess_players") /\ parse_frames) =>
          \A i \in DOMAIN Rounds : HasFrames(Rounds[i]) =>
              \A desc \in IterationOrders(json) :
                  LET e  == PreElimination(Rounds[i], json.mapName, desc)
                      eT == EliminateFirstDead(EliminateFirstDead(e, "t", 0), "t", 0)
                  IN  /\ BotDiesFirst(e, "t") =>
                            /\ eT = e
                            /\ SteamIds(EliminationStep(e).frames[1].t) = SteamIds(e.frames[1].t)
                            /\ Rounds[i].uid \notin Range(Uids(json'))
                      /\ BotDiesFirst(eT, "ct") =>
                            /\ EliminationStep(e) = eT
                            /\ Rounds[i].uid \notin Range(Uids(json'))]_vars

\* remove_excess_players has dropped the only round of a record: its T side had
\* 6 or more players, the earliest of them not alive with steamID 0 and another
\* one not alive with a steamID that is not 0
C30_Witness ==
    /\ hasJson /\ last.op = "remove_excess_players" /\ nCalls = 1 /\ parse_frames
    /\ Len(LoadedRounds) = 1
    /\ Rounds = <<>>
    /\ Len(LoadedRounds[1].frames[1].ct) \in 3..5
    /\ StillIds(LoadedRounds[1]) = {}
    /\ BotDiesFirst(LoadedRounds[1], "t")
    /\ \E k \in DOMAIN LoadedRounds[1].frames : DeadIn(LoadedRounds[1].frames[k], "t") \ {0} # {}

=============================================================================
